---- MODULE Spec2Model ----
(***************************************************************************)
(* Model of the LINALG add-in functions of src/src/linalg.cpp: the layout  *)
(* helpers fp_to_eigen / eigen_to_fp / vector_to_fp, the static FPX result *)
(* objects they own, and the exported xll_matrix_* handlers.               *)
(*                                                                         *)
(* A double is a triple <<kind, a, b>>: <<"num", n, 0>> is the exact value *)
(* n; any other kind names a value produced by an Eigen kernel the source  *)
(* only calls (inverse, LU, QR, LLT, SVD, eigen solver), identified by the *)
(* kernel and the position (a, b) in its output.                           *)
(***************************************************************************)
EXTENDS Integers, Sequences, FiniteSets, TLC

VARIABLES
    result,   \* the function-local `static FPX result` objects, by owning function
    ret,      \* value returned by the last call
    op,       \* name of the last handler called ("none" before the first call)
    args,     \* arguments of the last call
    outcome,  \* how the last call ended: "ok" | "precondition" | "numerical" | "fault"
    local,    \* the matrix the last call handed to its writer (empty if none)
    calls,    \* number of calls made so far
    before,   \* dimensions, before the last call, of the static array it wrote
    pc,       \* per thread: where its call stands ("idle" | "resize" | "write")
    tmat,     \* per thread: the matrix its call handed to eigen_to_fp
    tin,      \* per thread: the argument of its call and whether it was the slot itself
    tpos,     \* per thread: index of the next cell its Map assignment writes
    stale,    \* per thread: another call resized the slot after this call did
    alone,    \* per thread: no other call was in flight during this call
    log       \* the calls that returned: what was computed, what was returned

seq == <<ret, op, args, outcome, local, before>>

conc == <<pc, tmat, tin, tpos, stale, alone, log>>

vars == <<result, ret, op, args, outcome, local, calls, before, pc, tmat, tin, tpos, stale, alone, log>>

\* ---------------------------------------------------------------- bounds
MaxDim == 3        \* caller matrices have 1..MaxDim rows and columns
MaxPat == 5        \* caller matrices are the test matrices InMat(r, c, 0..MaxPat)
MaxCalls == 2      \* length of the call sequences explored
MaxThreads == 2    \* host threads that may have a call in flight

\* ---------------------------------------------------------------- doubles
Num(n) == <<"num", n, 0>>
Ker(kernel, i, j) == <<kernel, i, j>>
IsNum(x) == x[1] = "num"
quiet_NaN == <<"nan", 0, 0>>
Uninit == <<"uninit", 0, 0>>

\* IEEE arithmetic on exact values; arithmetic on a kernel output yields an
\* unspecified double.
DAdd(x, y) == IF IsNum(x) /\ IsNum(y) THEN Num(x[2] + y[2]) ELSE <<"fl", 0, 0>>
DSub(x, y) == IF IsNum(x) /\ IsNum(y) THEN Num(x[2] - y[2]) ELSE <<"fl", 0, 0>>
DMul(x, y) == IF IsNum(x) /\ IsNum(y) THEN Num(x[2] * y[2]) ELSE <<"fl", 0, 0>>

Idx(n) == 0 .. (n - 1)

Min(a, b) == IF a < b THEN a ELSE b
Max(a, b) == IF a > b THEN a ELSE b

\* ---------------------------------------------------------------- _FP12 / FPX
\* _FP12: rows, columns and a row-major array of rows*columns doubles;
\* f gives the entry at (row, column).
FP12(r, c, f) ==
    [rows |-> r, columns |-> c,
     array |-> [k \in 0 .. (r * c - 1) |-> f[k \div c, k % c]]]

FPSize(fp) == fp.rows * fp.columns

\* A default-constructed FPX.
FPX_empty == [rows |-> 0, columns |-> 0, array |-> [k \in {} |-> Uninit]]

\* FPX::resize(r, c): new dimensions, a buffer of r*c doubles that keeps the
\* old leading entries; entries beyond the old buffer are uninitialised.
FPX_resize(fpx, r, c) ==
    [rows |-> r, columns |-> c,
     array |-> [k \in 0 .. (r * c - 1) |->
                  IF k \in DOMAIN fpx.array THEN fpx.array[k] ELSE Uninit]]

\* ---------------------------------------------------------------- Eigen::MatrixXd
\* MatrixXd: rows, cols and column-major storage; coefficient (i, j) lives
\* at data[j*rows + i]; f gives the coefficient at (i, j).
MatrixXd(r, c, f) ==
    [rows |-> r, cols |-> c,
     data |-> [k \in 0 .. (r * c - 1) |-> f[k % r, k \div r]]]

Coeff(M, i, j) == M.data[j * M.rows + i]

MatSize(M) == M.rows * M.cols

NoMatrix == [rows |-> 0, cols |-> 0, data |-> [k \in {} |-> Uninit]]

\* ---------------------------------------------------------------- layout helpers
\* Map<const Matrix<double, Dynamic, Dynamic, RowMajor>>(fp->array, rows, columns)
\* copied into a (column-major) MatrixXd.
fp_to_eigen(fp) ==
    MatrixXd(fp.rows, fp.columns,
        [i \in Idx(fp.rows), j \in Idx(fp.columns) |->
            fp.array[i * fp.columns + j]])

\* The write of eigen_to_fp on its static FPX: resize, then the RowMajor Map
\* over result.array() is assigned mat.
eigen_to_fp_colmajor(fpx, mat) ==
    [FPX_resize(fpx, mat.rows, mat.cols) EXCEPT
        !.array = [k \in 0 .. (mat.rows * mat.cols - 1) |-> mat.data[k]]]

eigen_to_fp(fpx, mat) ==
    [FPX_resize(fpx, mat.rows, mat.cols) EXCEPT
        !.array = [k \in 0 .. (mat.rows * mat.cols - 1) |->
                     Coeff(mat, k \div mat.cols, k % mat.cols)]]

\* The write of vector_to_fp on its own static FPX: resize(size, 1), then
\* result(i, 0) = vec(i).  A VectorXd is a MatrixXd with one column.
vector_to_fp(fpx, vec) ==
    [FPX_resize(fpx, vec.rows, 1) EXCEPT
        !.array = [k \in 0 .. (vec.rows - 1) |-> vec.data[k]]]

\* ---------------------------------------------------------------- dense kernels
\* Coefficient-wise sum, difference and transpose, as Eigen evaluates them.
MatAdd(A, B) ==
    MatrixXd(A.rows, A.cols,
        [i \in Idx(A.rows), j \in Idx(A.cols) |->
            DAdd(Coeff(A, i, j), Coeff(B, i, j))])

\* difference with the operands exchanged
MatSub_reversed(A, B) ==
    MatrixXd(A.rows, A.cols,
        [i \in Idx(A.rows), j \in Idx(A.cols) |->
            DSub(Coeff(B, i, j), Coeff(A, i, j))])

MatSub(A, B) ==
    MatrixXd(A.rows, A.cols,
        [i \in Idx(A.rows), j \in Idx(A.cols) |->
            DSub(Coeff(A, i, j), Coeff(B, i, j))])

RECURSIVE Dot(_, _, _, _, _)
\* sum over l < n of A(i, l) * B(l, j)
Dot(A, B, i, j, n) ==
    IF n = 0 THEN Num(0)
    ELSE DAdd(Dot(A, B, i, j, n - 1), DMul(Coeff(A, i, n - 1), Coeff(B, n - 1, j)))

\* coefficient-wise product in place of the matrix product
MatMul_cwise(A, B) ==
    MatrixXd(A.rows, B.cols,
        [i \in Idx(A.rows), j \in Idx(B.cols) |->
            DMul(Coeff(A, i, Min(j, A.cols - 1)), Coeff(B, Min(i, B.rows - 1), j))])

MatMul(A, B) ==
    MatrixXd(A.rows, B.cols,
        [i \in Idx(A.rows), j \in Idx(B.cols) |->
            Dot(A, B, i, j, A.cols)])

\* transpose that only exchanges the dimensions
MatTranspose_reshape(A) ==
    MatrixXd(A.cols, A.rows,
        [i \in Idx(A.cols), j \in Idx(A.rows) |->
            Coeff(A, (i * A.rows + j) \div A.cols, (i * A.rows + j) % A.cols)])

MatTranspose(A) ==
    MatrixXd(A.cols, A.rows,
        [i \in Idx(A.cols), j \in Idx(A.rows) |->
            Coeff(A, j, i)])

\* MatrixXd::Identity(r, c) and MatrixXd::Zero(r, c)
MatIdentity(r, c) ==
    MatrixXd(r, c,
        [i \in Idx(r), j \in Idx(c) |->
            IF i = j THEN Num(1) ELSE Num(0)])

MatZero(r, c) == MatrixXd(r, c,
        [i \in Idx(r), j \in Idx(c) |->
            Num(0)])

\* A.col(0), v.asDiagonal() and A.diagonal()
MatCol0(A) == MatrixXd(A.rows, 1,
        [i \in Idx(A.rows), j \in Idx(1) |->
            Coeff(A, i, 0)])

asDiagonal(v) ==
    MatrixXd(v.rows, v.rows,
        [i \in Idx(v.rows), j \in Idx(v.rows) |->
            IF i = j THEN Coeff(v, i, 0) ELSE Num(0)])

MatDiagonal(A) ==
    MatrixXd(Min(A.rows, A.cols), 1,
        [i \in Idx(Min(A.rows, A.cols)), j \in Idx(1) |->
            Coeff(A, i, i)])

RECURSIVE TraceSum(_, _)
TraceSum(A, n) ==
    IF n = 0 THEN Num(0) ELSE DAdd(TraceSum(A, n - 1), Coeff(A, n - 1, n - 1))

\* ---------------------------------------------------------------- factorisation kernels
\* An r x c matrix of outputs of the named Eigen kernel.
KernelMatrix(kernel, r, c) == MatrixXd(r, c,
        [i \in Idx(r), j \in Idx(c) |->
            Ker(kernel, i, j)])

\* qr.matrixQR().triangularView<Upper>() evaluated into a MatrixXd: the
\* m x n packed matrix with everything below the diagonal set to zero.
matrixQR_Upper(A) ==
    MatrixXd(A.rows, A.cols,
        [i \in Idx(A.rows), j \in Idx(A.cols) |->
            IF i <= j THEN Ker("matrixQR", i, j) ELSE Num(0)])

\* llt.matrixL() evaluated into a MatrixXd: lower triangle of the factor,
\* zero above the diagonal.
matrixL(A) ==
    MatrixXd(A.rows, A.cols,
        [i \in Idx(A.rows), j \in Idx(A.cols) |->
            IF i >= j THEN Ker("matrixL", i, j) ELSE Num(0)])

\* The symmetric matrix LLT<MatrixXd> factorises: it reads the lower
\* triangle of A only.
LowerSym(A) ==
    [i \in 0 .. (A.rows - 1) |-> [j \in 0 .. (A.rows - 1) |->
        Coeff(A, Max(i, j), Min(i, j))[2]]]

RECURSIVE Det(_, _)
RECURSIVE DetRow(_, _, _)
\* determinant of the leading n x n block of S (expansion along row 0)
Det(S, n) ==
    IF n = 0 THEN 1 ELSE IF n = 1 THEN S[0][0] ELSE DetRow(S, n, 0)

DetRow(S, n, j) ==
    IF j = n THEN 0
    ELSE (IF j % 2 = 0 THEN 1 ELSE -1) * S[0][j]
            * Det([i \in 0 .. (n - 2) |-> [l \in 0 .. (n - 2) |->
                     S[i + 1][IF l < j THEN l ELSE l + 1]]], n - 1)
         + DetRow(S, n, j + 1)

\* a factorisation that always reports success
LLT_info_ignored(A) == "Success"

\* llt.info(): the factorisation stops with NumericalIssue at the first
\* non-positive pivot, i.e. unless every leading principal minor is positive.
LLT_info(A) ==
    IF \A k \in 1 .. A.rows : Det(LowerSym(A), k) > 0
    THEN "Success" ELSE "NumericalIssue"

\* A.determinant() on exact entries
MatDeterminant(A) ==
    Num(Det([i \in 0 .. (A.rows - 1) |-> [j \in 0 .. (A.rows - 1) |->
                Coeff(A, i, j)[2]]], A.rows))

\* ---------------------------------------------------------------- faults
\* Where a call may raise a C++ exception (std::bad_alloc): while copying
\* its inputs, inside the kernel, or in FPX::resize.  After resize a writer
\* only stores into the buffer it has.
FaultPoints == {"none", "fp_to_eigen", "kernel", "resize"}

\* Number of doubles one allocation can obtain; a larger request throws.
Capacity == 3 * MaxDim * MaxDim

Throws(f, point, cells) == f = point \/ cells > Capacity

\* ---------------------------------------------------------------- return values
nullptr == [type |-> "FP12", ptr |-> "nullptr", val |-> Num(0)]
FPret(owner) == [type |-> "FP12", ptr |-> owner, val |-> Num(0)]
DoubleRet(d) == [type |-> "double", ptr |-> "none", val |-> d]

\* What a handler does: the value it returns, the static FPX objects after
\* it, how it ended, and the matrix it handed to its writer.
Returns(r, res, how, mat) ==
    [ret |-> r, result |-> res, outcome |-> how, local |-> mat]

\* the handler's exit without the catch (...) clause: a fault propagates
return_nullptr_uncaught(how) ==
    IF how = "fault"
    THEN Returns([type |-> "exception", ptr |-> "none", val |-> Num(0)],
                 result, how, NoMatrix)
    ELSE Returns(nullptr, result, how, NoMatrix)

return_nullptr(how) == Returns(nullptr, result, how, NoMatrix)

return_NaN(how) == Returns(DoubleRet(quiet_NaN), result, how, NoMatrix)

\* a scalar result staged in the static array of eigen_to_fp
return_double_staged(d) ==
    Returns(DoubleRet(d),
            [result EXCEPT !["eigen_to_fp"] =
                eigen_to_fp(@, MatrixXd(1, 1, [i \in Idx(1), j \in Idx(1) |-> d]))],
            "ok", NoMatrix)

return_double(d) == Returns(DoubleRet(d), result, "ok", NoMatrix)

\* `return eigen_to_fp(mat);` inside try { } catch (...) { return nullptr; }
return_eigen_to_fp(mat, f) ==
    IF Throws(f, "resize", MatSize(mat)) THEN return_nullptr("fault")
    ELSE Returns(FPret("eigen_to_fp"),
                 [result EXCEPT !["eigen_to_fp"] = eigen_to_fp(@, mat)],
                 "ok", mat)

\* vector_to_fp sharing the static FPX of eigen_to_fp
return_vector_to_fp_shared(vec, f) ==
    IF Throws(f, "resize", MatSize(vec)) THEN return_nullptr("fault")
    ELSE Returns(FPret("eigen_to_fp"),
                 [result EXCEPT !["eigen_to_fp"] = vector_to_fp(@, vec)],
                 "ok", vec)

\* `return vector_to_fp(vec);` inside try { } catch (...) { return nullptr; }
return_vector_to_fp(vec, f) ==
    IF Throws(f, "resize", MatSize(vec)) THEN return_nullptr("fault")
    ELSE Returns(FPret("vector_to_fp"),
                 [result EXCEPT !["vector_to_fp"] = vector_to_fp(@, vec)],
                 "ok", vec)

\* ---------------------------------------------------------------- basic operations
xll_matrix_add(pa, pb, f) ==
    IF Throws(f, "fp_to_eigen", Max(FPSize(pa), FPSize(pb)))
    THEN return_nullptr("fault")
    ELSE LET A == fp_to_eigen(pa)
             B == fp_to_eigen(pb)
         IN  IF A.rows # B.rows \/ A.cols # B.cols
             THEN return_nullptr("precondition")
             ELSE IF Throws(f, "kernel", MatSize(A)) THEN return_nullptr("fault")
             ELSE return_eigen_to_fp(MatAdd(A, B), f)

xll_matrix_sub(pa, pb, f) ==
    IF Throws(f, "fp_to_eigen", Max(FPSize(pa), FPSize(pb)))
    THEN return_nullptr("fault")
    ELSE LET A == fp_to_eigen(pa)
             B == fp_to_eigen(pb)
         IN  IF A.rows # B.rows \/ A.cols # B.cols
             THEN return_nullptr("precondition")
             ELSE IF Throws(f, "kernel", MatSize(A)) THEN return_nullptr("fault")
             ELSE return_eigen_to_fp(MatSub(A, B), f)

xll_matrix_mul(pa, pb, f) ==
    IF Throws(f, "fp_to_eigen", Max(FPSize(pa), FPSize(pb)))
    THEN return_nullptr("fault")
    ELSE LET A == fp_to_eigen(pa)
             B == fp_to_eigen(pb)
         IN  IF A.cols # B.rows
             THEN return_nullptr("precondition")
             ELSE IF Throws(f, "kernel", A.rows * B.cols) THEN return_nullptr("fault")
             ELSE return_eigen_to_fp(MatMul(A, B), f)

xll_matrix_transpose(pa, f) ==
    IF Throws(f, "fp_to_eigen", FPSize(pa)) THEN return_nullptr("fault")
    ELSE LET A == fp_to_eigen(pa)
         IN  IF Throws(f, "kernel", MatSize(A)) THEN return_nullptr("fault")
             ELSE return_eigen_to_fp(MatTranspose(A), f)

\* trace without the shape test: the sum of the main diagonal
xll_matrix_trace_unchecked(pa, f) ==
    IF Throws(f, "fp_to_eigen", FPSize(pa)) THEN return_NaN("fault")
    ELSE LET A == fp_to_eigen(pa)
         IN  return_double(TraceSum(A, Min(A.rows, A.cols)))

xll_matrix_trace(pa, f) ==
    IF Throws(f, "fp_to_eigen", FPSize(pa)) THEN return_NaN("fault")
    ELSE LET A == fp_to_eigen(pa)
         IN  IF A.rows # A.cols THEN return_NaN("precondition")
             ELSE return_double(TraceSum(A, A.rows))

xll_matrix_norm(pa, f) ==
    IF Throws(f, "fp_to_eigen", FPSize(pa)) THEN return_NaN("fault")
    ELSE return_double(Ker("norm", 0, 0))

xll_matrix_det(pa, f) ==
    IF Throws(f, "fp_to_eigen", FPSize(pa)) THEN return_NaN("fault")
    ELSE LET A == fp_to_eigen(pa)
         IN  IF A.rows # A.cols THEN return_NaN("precondition")
             ELSE IF Throws(f, "kernel", MatSize(A)) THEN return_NaN("fault")
             ELSE return_double(MatDeterminant(A))

xll_matrix_rank(pa, f) ==
    IF Throws(f, "fp_to_eigen", FPSize(pa)) THEN return_NaN("fault")
    ELSE IF Throws(f, "kernel", FPSize(pa)) THEN return_NaN("fault")
    ELSE return_double(Ker("rank", 0, 0))

\* ---------------------------------------------------------------- decompositions
xll_matrix_inv(pa, f) ==
    IF Throws(f, "fp_to_eigen", FPSize(pa)) THEN return_nullptr("fault")
    ELSE LET A == fp_to_eigen(pa)
         IN  IF A.rows # A.cols THEN return_nullptr("precondition")
             ELSE IF Throws(f, "kernel", MatSize(A)) THEN return_nullptr("fault")
             ELSE return_eigen_to_fp(KernelMatrix("inverse", A.rows, A.cols), f)

xll_matrix_lu(pa, f) ==
    IF Throws(f, "fp_to_eigen", FPSize(pa)) THEN return_nullptr("fault")
    ELSE LET A == fp_to_eigen(pa)
         IN  IF A.rows # A.cols THEN return_nullptr("precondition")
             ELSE IF Throws(f, "kernel", MatSize(A)) THEN return_nullptr("fault")
             ELSE return_eigen_to_fp(KernelMatrix("matrixLU", A.rows, A.cols), f)

xll_matrix_qr(pa, f) ==
    IF Throws(f, "fp_to_eigen", FPSize(pa)) THEN return_nullptr("fault")
    ELSE LET A == fp_to_eigen(pa)
         IN  IF Throws(f, "kernel", MatSize(A)) THEN return_nullptr("fault")
             ELSE return_eigen_to_fp(matrixQR_Upper(A), f)

\* Cholesky converting the factor before it tests llt.info()
xll_matrix_cholesky_write_first(pa, f) ==
    IF Throws(f, "fp_to_eigen", FPSize(pa)) THEN return_nullptr("fault")
    ELSE LET A == fp_to_eigen(pa)
         IN  IF A.rows # A.cols THEN return_nullptr("precondition")
             ELSE IF Throws(f, "kernel", MatSize(A)) THEN return_nullptr("fault")
             ELSE IF LLT_info(A) # "Success"
             THEN Returns(nullptr,
                          [result EXCEPT !["eigen_to_fp"] = eigen_to_fp(@, matrixL(A))],
                          "numerical", NoMatrix)
             ELSE return_eigen_to_fp(matrixL(A), f)

xll_matrix_cholesky(pa, f) ==
    IF Throws(f, "fp_to_eigen", FPSize(pa)) THEN return_nullptr("fault")
    ELSE LET A == fp_to_eigen(pa)
         IN  IF A.rows # A.cols THEN return_nullptr("precondition")
             ELSE IF Throws(f, "kernel", MatSize(A)) THEN return_nullptr("fault")
             ELSE IF LLT_info(A) # "Success" THEN return_nullptr("numerical")
             ELSE return_eigen_to_fp(matrixL(A), f)

xll_matrix_svd(pa, f) ==
    IF Throws(f, "fp_to_eigen", FPSize(pa)) THEN return_nullptr("fault")
    ELSE LET A == fp_to_eigen(pa)
         IN  IF Throws(f, "kernel", MatSize(A)) THEN return_nullptr("fault")
             ELSE return_vector_to_fp(
                      KernelMatrix("singularValues", Min(A.rows, A.cols), 1), f)

\* result(r0 + i, j) = M(i, j) for i < M.rows, j < M.cols, on an FPX
FPX_store_block(fpx, r0, M) ==
    [fpx EXCEPT !.array = [x \in DOMAIN fpx.array |->
        LET i == (x \div fpx.columns) - r0
            j == x % fpx.columns
        IN  IF 0 <= i /\ i < M.rows /\ j < M.cols THEN Coeff(M, i, j)
            ELSE fpx.array[x]]]

\* the zero-initialisation loop left out
FPX_zero_fill_skipped(fpx) == fpx

\* for (i < total_rows * max_cols) result[i] = 0.0;
FPX_zero_fill(fpx) == [fpx EXCEPT !.array = [x \in DOMAIN fpx.array |-> Num(0)]]

\* full SVD write placing V-transpose directly under U
svd_full_write_overlapped(fpx, m, n, k) ==
    LET U     == KernelMatrix("matrixU", m, k)
        sigma == KernelMatrix("singularValues", k, 1)
        Vt    == MatTranspose(KernelMatrix("matrixV", n, k))
        Sigma == asDiagonal(sigma)
        max_cols   == Max(Max(m, n), k)
        total_rows == m + k + k
        zeroed == FPX_zero_fill(FPX_resize(fpx, total_rows, max_cols))
    IN  FPX_store_block(
            FPX_store_block(
                FPX_store_block(zeroed, 0, U),
                m, Sigma),
            m, Vt)

\* The write of xll_matrix_svd_full on its own static FPX.
svd_full_write(fpx, m, n, k) ==
    LET U     == KernelMatrix("matrixU", m, k)
        sigma == KernelMatrix("singularValues", k, 1)
        Vt    == MatTranspose(KernelMatrix("matrixV", n, k))
        Sigma == asDiagonal(sigma)
        max_cols   == Max(Max(m, n), k)
        total_rows == m + k + k
        zeroed == FPX_zero_fill(FPX_resize(fpx, total_rows, max_cols))
    IN  FPX_store_block(
            FPX_store_block(
                FPX_store_block(zeroed, 0, U),
                m, Sigma),
            m + k, Vt)

xll_matrix_svd_full(pa, f) ==
    IF Throws(f, "fp_to_eigen", FPSize(pa)) THEN return_nullptr("fault")
    ELSE LET A == fp_to_eigen(pa)
             m == A.rows
             n == A.cols
             k == Min(A.rows, A.cols)
         IN  IF Throws(f, "kernel", MatSize(A)) THEN return_nullptr("fault")
             ELSE IF Throws(f, "resize", (m + k + k) * Max(Max(m, n), k))
             THEN return_nullptr("fault")
             ELSE Returns(FPret("svd_full"),
                          [result EXCEPT !["svd_full"] = svd_full_write(@, m, n, k)],
                          "ok", NoMatrix)

xll_matrix_eigenvalues(pa, f) ==
    IF Throws(f, "fp_to_eigen", FPSize(pa)) THEN return_nullptr("fault")
    ELSE LET A == fp_to_eigen(pa)
         IN  IF A.rows # A.cols THEN return_nullptr("precondition")
             ELSE IF Throws(f, "kernel", MatSize(A)) THEN return_nullptr("fault")
             ELSE return_vector_to_fp(KernelMatrix("eigenvalues", A.rows, 1), f)

xll_matrix_eigenvectors(pa, f) ==
    IF Throws(f, "fp_to_eigen", FPSize(pa)) THEN return_nullptr("fault")
    ELSE LET A == fp_to_eigen(pa)
         IN  IF A.rows # A.cols THEN return_nullptr("precondition")
             ELSE IF Throws(f, "kernel", MatSize(A)) THEN return_nullptr("fault")
             ELSE return_eigen_to_fp(KernelMatrix("eigenvectors", A.rows, A.cols), f)

\* ---------------------------------------------------------------- solvers
\* solve refusing a singular coefficient matrix
xll_matrix_solve_checked(pa, pb, f) ==
    IF Throws(f, "fp_to_eigen", Max(FPSize(pa), FPSize(pb)))
    THEN return_nullptr("fault")
    ELSE LET A == fp_to_eigen(pa)
             b == fp_to_eigen(pb)
         IN  IF A.rows # A.cols \/ A.rows # b.rows
             THEN return_nullptr("precondition")
             ELSE IF Throws(f, "kernel", MatSize(A)) THEN return_nullptr("fault")
             ELSE IF MatDeterminant(A) = Num(0) THEN return_nullptr("numerical")
             ELSE return_eigen_to_fp(KernelMatrix("lu.solve", A.cols, b.cols), f)

xll_matrix_solve(pa, pb, f) ==
    IF Throws(f, "fp_to_eigen", Max(FPSize(pa), FPSize(pb)))
    THEN return_nullptr("fault")
    ELSE LET A == fp_to_eigen(pa)
             b == fp_to_eigen(pb)
         IN  IF A.rows # A.cols \/ A.rows # b.rows
             THEN return_nullptr("precondition")
             ELSE IF Throws(f, "kernel", MatSize(A)) THEN return_nullptr("fault")
             ELSE return_eigen_to_fp(KernelMatrix("lu.solve", A.cols, b.cols), f)

xll_matrix_lstsq(pa, pb, f) ==
    IF Throws(f, "fp_to_eigen", Max(FPSize(pa), FPSize(pb)))
    THEN return_nullptr("fault")
    ELSE LET A == fp_to_eigen(pa)
             b == fp_to_eigen(pb)
         IN  IF A.rows # b.rows
             THEN return_nullptr("precondition")
             ELSE IF Throws(f, "kernel", MatSize(A)) THEN return_nullptr("fault")
             ELSE return_eigen_to_fp(KernelMatrix("svd.solve", A.cols, b.cols), f)

\* The element of the set S of integers with exactly i smaller elements.
Nth(S, i) == CHOOSE x \in S : Cardinality({y \in S : y < x}) = i

\* the minor of A on the row set R and the column set C, both of size r
Minor(A, R, C, r) ==
    Det([i \in Idx(r) |-> [j \in Idx(r) |-> Coeff(A, Nth(R, i), Nth(C, j))[2]]], r)

\* Rank of a matrix with exact entries: the number of nonzero singular
\* values svd.singularValues() holds for it.
MatRank(A) ==
    LET Sizes == {r \in 0 .. Min(A.rows, A.cols) :
                    \E R \in SUBSET Idx(A.rows), C \in SUBSET Idx(A.cols) :
                        /\ Cardinality(R) = r
                        /\ Cardinality(C) = r
                        /\ Minor(A, R, C, r) # 0}
    IN  CHOOSE r \in Sizes : \A q \in Sizes : q <= r

\* Magnitudes on a three-step scale: 0 is exactly 0.0, 2 is a nonzero
\* singular value of the input, 1 lies strictly between (epsilon * max_dim
\* times the largest singular value, for these inputs far below every
\* nonzero singular value).
\* svd.singularValues()(i): sorted decreasing, the first MatRank(A) nonzero
singularValues(A, i) == IF i < MatRank(A) THEN 2 ELSE 0

\* tolerance = epsilon * max_dim * svd.singularValues().array().abs().maxCoeff()
tolerance(A) == IF singularValues(A, 0) = 0 THEN 0 ELSE 1

\* the loop test with >= in place of >
singularValuesInv_geq(A, i) ==
    IF singularValues(A, i) >= tolerance(A) THEN "1.0/s" ELSE "0.0"

\* if (svd.singularValues()(i) > tolerance) 1.0 / s else 0.0
singularValuesInv(A, i) ==
    IF singularValues(A, i) > tolerance(A) THEN "1.0/s" ELSE "0.0"

\* Ainv = V * singularValuesInv.asDiagonal() * U.adjoint(): entry (i, j) is
\* the sum over the reciprocated l of V(i,l) * (1/s_l) * U(j,l); exactly 0
\* when no singular value is reciprocated, else a kernel output identified
\* by its position and by how many leading singular values entered it.
PinvProduct(A) ==
    LET k == Min(A.rows, A.cols)
        kept == Cardinality({l \in Idx(k) : singularValuesInv(A, l) = "1.0/s"})
    IN  MatrixXd(A.cols, A.rows,
            [i \in Idx(A.cols), j \in Idx(A.rows) |->
                IF kept = 0 THEN Num(0) ELSE <<"V*Sinv*Ut", i * A.rows + j, kept>>])

xll_matrix_pinv(pa, f) ==
    IF Throws(f, "fp_to_eigen", FPSize(pa)) THEN return_nullptr("fault")
    ELSE LET A == fp_to_eigen(pa)
         IN  IF Throws(f, "kernel", MatSize(A)) THEN return_nullptr("fault")
             ELSE return_eigen_to_fp(PinvProduct(A), f)

\* ---------------------------------------------------------------- utilities
\* A scalar argument <<"dec", m, e>> is the double m * 10^e, e in {-1, 0, 9}.
Dec(m, e) == <<"dec", m, e>>

\* conversion rounding to the nearest integer
static_cast_int_round(x) ==
    IF x[3] = -1 THEN {IF x[2] >= 0 THEN (x[2] + 5) \div 10 ELSE -((5 - x[2]) \div 10)}
    ELSE IF x[3] = 0 THEN {x[2]}
    ELSE IF -2 <= x[2] /\ x[2] <= 2 THEN {x[2] * 1000000000}
    ELSE {2147483647, -2147483647 - 1}

\* static_cast<int>(x): truncation toward zero; undefined when the truncated
\* value does not fit an int, where builds yield INT_MIN (x86) or a
\* saturated INT_MAX (ARM).
static_cast_int(x) ==
    IF x[3] = -1 THEN {IF x[2] >= 0 THEN x[2] \div 10 ELSE -((-x[2]) \div 10)}
    ELSE IF x[3] = 0 THEN {x[2]}
    ELSE IF -2 <= x[2] /\ x[2] <= 2 THEN {x[2] * 1000000000}
    ELSE {2147483647, -2147483647 - 1}

\* largest dimension a generator accepts
MaxGeneratorDim == 10000

\* dim is the int that static_cast<int>(n) produced
xll_matrix_identity(dim, f) ==
    IF dim <= 0 \/ dim > MaxGeneratorDim THEN return_nullptr("precondition")
    ELSE IF Throws(f, "kernel", dim * dim) THEN return_nullptr("fault")
    ELSE return_eigen_to_fp(MatIdentity(dim, dim), f)

xll_matrix_zeros(rows, cols, f) ==
    IF rows <= 0 \/ cols <= 0 \/ rows > MaxGeneratorDim \/ cols > MaxGeneratorDim
    THEN return_nullptr("precondition")
    ELSE IF Throws(f, "kernel", rows * cols) THEN return_nullptr("fault")
    ELSE return_eigen_to_fp(MatZero(rows, cols), f)

\* diag building a diagonal matrix only from a column of two or more rows
xll_matrix_diag_proper_column(pa, f) ==
    IF Throws(f, "fp_to_eigen", FPSize(pa)) THEN return_nullptr("fault")
    ELSE LET A == fp_to_eigen(pa)
         IN  IF A.cols = 1 /\ A.rows > 1
             THEN IF Throws(f, "kernel", A.rows * A.rows) THEN return_nullptr("fault")
                  ELSE return_eigen_to_fp(asDiagonal(MatCol0(A)), f)
             ELSE IF Throws(f, "kernel", Min(A.rows, A.cols))
                  THEN return_nullptr("fault")
                  ELSE return_vector_to_fp(MatDiagonal(A), f)

xll_matrix_diag(pa, f) ==
    IF Throws(f, "fp_to_eigen", FPSize(pa)) THEN return_nullptr("fault")
    ELSE LET A == fp_to_eigen(pa)
         IN  IF A.cols = 1
             THEN IF Throws(f, "kernel", A.rows * A.rows) THEN return_nullptr("fault")
                  ELSE return_eigen_to_fp(asDiagonal(MatCol0(A)), f)
             ELSE IF Throws(f, "kernel", Min(A.rows, A.cols))
                  THEN return_nullptr("fault")
                  ELSE return_vector_to_fp(MatDiagonal(A), f)

\* ---------------------------------------------------------------- caller inputs
\* The p-th test matrix of shape r x c:
\*   entry(i, j) = p%2 + ((p/2)%2) * (i*c + j) + (p/4) * [i = j]
\* p = 0 zero, 1 all ones, 2 and 3 distinct entries, 4 identity, 5 ones + identity.
InMat(r, c, p) ==
    FP12(r, c,
        [i \in Idx(r), j \in Idx(c) |->
            Num((p % 2) + ((p \div 2) % 2) * (i * c + j)
            + (p \div 4) * (IF i = j THEN 1 ELSE 0))])

CallerMatrices ==
    {InMat(r, c, p) : r \in 1 .. MaxDim, c \in 1 .. MaxDim, p \in 0 .. MaxPat}

ScalarArgs ==
    {Dec(-9, -1), Dec(0, 0), Dec(9, -1), Dec(1, 0), Dec(2, 0), Dec(39, -1),
     Dec(100005, -1), Dec(10001, 0), Dec(3, 9)}

\* Inputs of the calls that follow another call.
SeqMatrices == {InMat(2, 1, 3), InMat(2, 2, 3)}

SeqScalars == {Dec(0, 0), Dec(29, -1)}

\* ---------------------------------------------------------------- state machine
StaticOwners == {"eigen_to_fp", "vector_to_fp", "svd_full"}

Threads == 1 .. MaxThreads

\* no static array written, or one never resized
NoShape == [rows |-> 0, columns |-> 0]

\* no call entered
NoArgument == [alias |-> FALSE, arg |-> FPX_empty]

Init ==
    /\ result = [o \in StaticOwners |-> FPX_empty]
    /\ ret = nullptr
    /\ op = "none"
    /\ args = <<>>
    /\ outcome = "ok"
    /\ local = NoMatrix
    /\ calls = 0
    /\ before = NoShape
    /\ pc = [t \in Threads |-> "idle"]
    /\ tmat = [t \in Threads |-> NoMatrix]
    /\ tin = [t \in Threads |-> NoArgument]
    /\ tpos = [t \in Threads |-> 0]
    /\ stale = [t \in Threads |-> FALSE]
    /\ alone = [t \in Threads |-> TRUE]
    /\ log = <<>>

\* One call of handler `name` with arguments a, doing R.
Call(name, a, R) ==
    /\ before' = (IF R.ret.type = "FP12" /\ R.ret.ptr # "nullptr"
                  THEN [rows |-> result[R.ret.ptr].rows,
                        columns |-> result[R.ret.ptr].columns]
                  ELSE NoShape)
    /\ op' = name
    /\ args' = a
    /\ ret' = R.ret
    /\ result' = R.result
    /\ outcome' = R.outcome
    /\ local' = R.local
    /\ calls' = calls + 1
    /\ UNCHANGED conc

\* Exploration: the first call takes any caller input; a call sequence is
\* continued only after calls on the sequence inputs.
Matrices == IF calls = 0 THEN CallerMatrices ELSE SeqMatrices

Scalars == IF calls = 0 THEN ScalarArgs ELSE SeqScalars

Continue ==
    /\ calls < MaxCalls
    /\ \A i \in 1 .. Len(args) :
          IF op \in {"identity", "zeros"} THEN args[i] \in SeqScalars
          ELSE args[i] \in SeqMatrices

MATRIX_ADD ==
    /\ Continue
    /\ \E pa \in Matrices, pb \in Matrices, f \in FaultPoints :
          Call("add", <<pa, pb>>, xll_matrix_add(pa, pb, f))

MATRIX_SUB ==
    /\ Continue
    /\ \E pa \in Matrices, pb \in Matrices, f \in FaultPoints :
          Call("sub", <<pa, pb>>, xll_matrix_sub(pa, pb, f))

MATRIX_MUL ==
    /\ Continue
    /\ \E pa \in Matrices, pb \in Matrices, f \in FaultPoints :
          Call("mul", <<pa, pb>>, xll_matrix_mul(pa, pb, f))

MATRIX_TRANSPOSE ==
    /\ Continue
    /\ \E pa \in Matrices, f \in FaultPoints :
          Call("transpose", <<pa>>, xll_matrix_transpose(pa, f))

MATRIX_TRACE ==
    /\ Continue
    /\ \E pa \in Matrices, f \in FaultPoints :
          Call("trace", <<pa>>, xll_matrix_trace(pa, f))

MATRIX_NORM ==
    /\ Continue
    /\ \E pa \in Matrices, f \in FaultPoints :
          Call("norm", <<pa>>, xll_matrix_norm(pa, f))

MATRIX_DETERMINANT ==
    /\ Continue
    /\ \E pa \in Matrices, f \in FaultPoints :
          Call("det", <<pa>>, xll_matrix_det(pa, f))

MATRIX_RANK ==
    /\ Continue
    /\ \E pa \in Matrices, f \in FaultPoints :
          Call("rank", <<pa>>, xll_matrix_rank(pa, f))

MATRIX_INVERSE ==
    /\ Continue
    /\ \E pa \in Matrices, f \in FaultPoints :
          Call("inv", <<pa>>, xll_matrix_inv(pa, f))

MATRIX_LU ==
    /\ Continue
    /\ \E pa \in Matrices, f \in FaultPoints :
          Call("lu", <<pa>>, xll_matrix_lu(pa, f))

MATRIX_QR ==
    /\ Continue
    /\ \E pa \in Matrices, f \in FaultPoints :
          Call("qr", <<pa>>, xll_matrix_qr(pa, f))

MATRIX_CHOLESKY ==
    /\ Continue
    /\ \E pa \in Matrices, f \in FaultPoints :
          Call("cholesky", <<pa>>, xll_matrix_cholesky(pa, f))

MATRIX_SVD ==
    /\ Continue
    /\ \E pa \in Matrices, f \in FaultPoints :
          Call("svd", <<pa>>, xll_matrix_svd(pa, f))

MATRIX_SVD_FULL ==
    /\ Continue
    /\ \E pa \in Matrices, f \in FaultPoints :
          Call("svd_full", <<pa>>, xll_matrix_svd_full(pa, f))

MATRIX_EIGENVALUES ==
    /\ Continue
    /\ \E pa \in Matrices, f \in FaultPoints :
          Call("eigenvalues", <<pa>>, xll_matrix_eigenvalues(pa, f))

MATRIX_EIGENVECTORS ==
    /\ Continue
    /\ \E pa \in Matrices, f \in FaultPoints :
          Call("eigenvectors", <<pa>>, xll_matrix_eigenvectors(pa, f))

MATRIX_SOLVE ==
    /\ Continue
    /\ \E pa \in Matrices, pb \in Matrices, f \in FaultPoints :
          Call("solve", <<pa, pb>>, xll_matrix_solve(pa, pb, f))

MATRIX_LSTSQ ==
    /\ Continue
    /\ \E pa \in Matrices, pb \in Matrices, f \in FaultPoints :
          Call("lstsq", <<pa, pb>>, xll_matrix_lstsq(pa, pb, f))

MATRIX_PSEUDO_INV ==
    /\ Continue
    /\ \E pa \in Matrices, f \in FaultPoints :
          Call("pinv", <<pa>>, xll_matrix_pinv(pa, f))

MATRIX_DIAG ==
    /\ Continue
    /\ \E pa \in Matrices, f \in FaultPoints :
          Call("diag", <<pa>>, xll_matrix_diag(pa, f))

MATRIX_IDENTITY ==
    /\ Continue
    /\ \E n \in Scalars, f \in FaultPoints : \E dim \in static_cast_int(n) :
          Call("identity", <<n>>, xll_matrix_identity(dim, f))

MATRIX_ZEROS ==
    /\ Continue
    /\ \E m \in Scalars, n \in Scalars, f \in FaultPoints :
          \E rows \in static_cast_int(m), cols \in static_cast_int(n) :
              Call("zeros", <<m, n>>, xll_matrix_zeros(rows, cols, f))

\* The host issues calls one after another (single-threaded host).
Next ==
    \/ MATRIX_ADD
    \/ MATRIX_SUB
    \/ MATRIX_MUL
    \/ MATRIX_TRANSPOSE
    \/ MATRIX_TRACE
    \/ MATRIX_NORM
    \/ MATRIX_DETERMINANT
    \/ MATRIX_RANK
    \/ MATRIX_INVERSE
    \/ MATRIX_LU
    \/ MATRIX_QR
    \/ MATRIX_CHOLESKY
    \/ MATRIX_SVD
    \/ MATRIX_SVD_FULL
    \/ MATRIX_EIGENVALUES
    \/ MATRIX_EIGENVECTORS
    \/ MATRIX_SOLVE
    \/ MATRIX_LSTSQ
    \/ MATRIX_PSEUDO_INV
    \/ MATRIX_IDENTITY
    \/ MATRIX_ZEROS
    \/ MATRIX_DIAG

Spec == Init /\ [][Next]_vars

\* ---------------------------------------------------------------- calls in flight
\* The same code run by several host threads with no lock: a call of
\* xll_matrix_transpose is split at the accesses eigen_to_fp makes to its
\* static FPX: result.resize(...), then the cell-by-cell assignment through
\* the Map built on result.array(), then return result.get().

\* cell k of the destination taken from the column-major source buffer
Map_assign_cell_colmajor(fpx, mat, k) ==
    [fpx EXCEPT !.array[k] = mat.data[k]]

\* Map<RowMajor>(result.array(), rows, cols) = mat, at destination cell k
Map_assign_cell(fpx, mat, k) ==
    [fpx EXCEPT !.array[k] = Coeff(mat, k \div mat.cols, k % mat.cols)]

InFlight(t) == pc[t] # "idle"

\* What the caller passes: a matrix of its own, or, once a call has
\* returned and while no call is running, the returned pointer itself,
\* i.e. the static FPX of eigen_to_fp as it is now.
CallerArguments ==
    {[alias |-> FALSE, arg |-> m] : m \in SeqMatrices}
        \cup (IF Len(log) > 0 /\ \A v \in Threads : ~InFlight(v)
              THEN {[alias |-> TRUE, arg |-> result["eigen_to_fp"]]}
              ELSE {})

\* the source of the Map assignment read through a view of the argument
\* buffer instead of the private matrix
SourceMatrix_view(t) ==
    IF tin[t].alias
    THEN MatTranspose(
             MatrixXd(tin[t].arg.rows, tin[t].arg.columns,
                 [i \in Idx(tin[t].arg.rows), j \in Idx(tin[t].arg.columns) |->
                     IF i * tin[t].arg.columns + j \in DOMAIN result["eigen_to_fp"].array
                     THEN result["eigen_to_fp"].array[i * tin[t].arg.columns + j]
                     ELSE Uninit]))
    ELSE tmat[t]

\* const MatrixXd& mat of eigen_to_fp: the handler's private MatrixXd At
SourceMatrix(t) == tmat[t]

\* MatrixXd A = fp_to_eigen(pa); MatrixXd At = A.transpose(); enter eigen_to_fp
TRANSPOSE_Enter ==
    /\ calls < MaxCalls + 1
    /\ \E t \in Threads, a \in CallerArguments :
          /\ pc[t] = "idle"
          /\ pc' = [pc EXCEPT ![t] = "resize"]
          /\ tin' = [tin EXCEPT ![t] = a]
          /\ tmat' = [tmat EXCEPT ![t] = MatTranspose(fp_to_eigen(a.arg))]
          /\ alone' = [u \in Threads |->
                          IF u = t THEN \A v \in Threads : ~InFlight(v)
                          ELSE alone[u] /\ ~InFlight(u)]
    /\ calls' = calls + 1
    /\ UNCHANGED <<result, tpos, stale, log>>
    /\ UNCHANGED seq

\* result.resize(mat.rows(), mat.cols()); every Map another call built on
\* result.array() before this point now refers to the old buffer
EIGEN_TO_FP_Resize ==
    /\ \E t \in Threads :
          /\ pc[t] = "resize"
          /\ result' = [result EXCEPT
                 !["eigen_to_fp"] = FPX_resize(@, tmat[t].rows, tmat[t].cols)]
          /\ pc' = [pc EXCEPT ![t] = "write"]
          /\ tpos' = [tpos EXCEPT ![t] = 0]
          /\ stale' = [u \in Threads |-> u # t]
    /\ UNCHANGED <<calls, tmat, tin, alone, log>>
    /\ UNCHANGED seq

\* One cell of the Map assignment.  Through a Map on the current buffer the
\* write lands.  Through a Map on a buffer resized away by another call the
\* write is undefined: it lands in the current buffer (buffer kept in
\* place) or goes to released memory and is lost.
EIGEN_TO_FP_Write ==
    /\ \E t \in Threads :
          /\ pc[t] = "write"
          /\ tpos[t] < MatSize(tmat[t])
          /\ \/ /\ tpos[t] \in DOMAIN result["eigen_to_fp"].array
                /\ result' = [result EXCEPT
                       !["eigen_to_fp"] = Map_assign_cell(@, SourceMatrix(t), tpos[t])]
             \/ /\ stale[t]
                /\ UNCHANGED result
          /\ tpos' = [tpos EXCEPT ![t] = tpos[t] + 1]
    /\ UNCHANGED <<calls, pc, tmat, tin, stale, alone, log>>
    /\ UNCHANGED seq

\* return result.get(): the caller reads the static FPX as it is now
EIGEN_TO_FP_Return ==
    /\ \E t \in Threads :
          /\ pc[t] = "write"
          /\ tpos[t] = MatSize(tmat[t])
          /\ log' = Append(log, [alone |-> alone[t], mat |-> tmat[t],
                                  alias |-> tin[t].alias, arg |-> tin[t].arg,
                                  seen |-> result["eigen_to_fp"]])
          /\ pc' = [pc EXCEPT ![t] = "idle"]
          /\ tmat' = [tmat EXCEPT ![t] = NoMatrix]
          /\ tin' = [tin EXCEPT ![t] = NoArgument]
          /\ tpos' = [tpos EXCEPT ![t] = 0]
          /\ stale' = [stale EXCEPT ![t] = FALSE]
          /\ alone' = [alone EXCEPT ![t] = TRUE]
    /\ UNCHANGED <<calls, result>>
    /\ UNCHANGED seq

NextConc ==
    \/ TRANSPOSE_Enter
    \/ EIGEN_TO_FP_Resize
    \/ EIGEN_TO_FP_Write
    \/ EIGEN_TO_FP_Return

SpecConc == Init /\ [][NextConc]_vars

\* ================================================================ claims
Succeeded(r) == r.type = "FP12" /\ r.ptr # "nullptr"

FailedRet(r) == r = nullptr \/ r = DoubleRet(quiet_NaN)

\* The static array a successful matrix-valued call returns, read off the
\* handler bodies.
WriterOf(o, a) ==
    IF o = "svd_full" THEN "svd_full"
    ELSE IF o \in {"svd", "eigenvalues"} THEN "vector_to_fp"
    ELSE IF o = "diag" /\ a[1].columns # 1 THEN "vector_to_fp"
    ELSE "eigen_to_fp"

\* C1 as stated: all matrix-valued operations return the same array object,
\* so a successful matrix-valued call returns the array the previous
\* successful matrix-valued call returned.
C1_SingleOutputSlot ==
    [][(Succeeded(ret) /\ Succeeded(ret')) => ret'.ptr = ret.ptr]_vars

\* C1 amended: a successful matrix-valued call returns the static array of
\* the writer it uses (eigen_to_fp's, vector_to_fp's or svd_full's own),
\* resized to its result, and leaves the other two static arrays unchanged.
C1_OneSlotPerWriter ==
    [][Succeeded(ret') =>
        /\ ret'.ptr = WriterOf(op', args')
        /\ \A o \in StaticOwners \ {ret'.ptr} : result'[o] = result[o]
        /\ FPSize(result'[ret'.ptr]) > 0
        /\ DOMAIN result'[ret'.ptr].array = 0 .. (FPSize(result'[ret'.ptr]) - 1)]_vars

\* Two arrays returned by different writers hold their results at once.
C1_Witness ==
    /\ calls = 2
    /\ Succeeded(ret)
    /\ ret.ptr = "vector_to_fp"
    /\ op = "svd"
    /\ result["eigen_to_fp"].rows = 2
    /\ result["eigen_to_fp"].columns = 2
    /\ result["vector_to_fp"].rows = 1

\* C2: a call that returns its failure sentinel (nullptr, or NaN for the
\* scalar-valued handlers) leaves every static array as it was.
C2_FailureLeavesSlots ==
    [][(calls' = calls + 1 /\ FailedRet(ret')) => result' = result]_vars

\* A Cholesky call failed numerically after an earlier call had filled an array.
C2_Witness ==
    /\ calls = 2
    /\ op = "cholesky"
    /\ outcome = "numerical"
    /\ ret = nullptr
    /\ result["eigen_to_fp"].rows = 2
    /\ result["eigen_to_fp"].columns = 1

\* exact determinant of a square caller matrix
FPDet(fp) ==
    Det([i \in 0 .. (fp.rows - 1) |-> [j \in 0 .. (fp.rows - 1) |->
            fp.array[i * fp.columns + j][2]]], fp.rows)

\* C3: inverse of a singular square matrix returns the null array.
C3_SingularInverseFails ==
    (op = "inv" /\ args[1].rows = args[1].columns /\ FPDet(args[1]) = 0)
        => ret = nullptr

\* C4: eigen_to_fp leaves its array with the matrix's dimensions, exactly
\* rows*cols entries and buffer[i*cols + j] = M(i, j); fp_to_eigen reads
\* internal(i, j) = buffer[i*columns + j]; converting the array back gives M.
C4_LayoutRoundTrip ==
    /\ (Succeeded(ret) /\ ret.ptr = "eigen_to_fp") =>
          LET fp == result["eigen_to_fp"]
          IN  /\ fp.rows = local.rows
              /\ fp.columns = local.cols
              /\ DOMAIN fp.array = 0 .. (local.rows * local.cols - 1)
              /\ \A i \in 0 .. (local.rows - 1), j \in 0 .. (local.cols - 1) :
                    fp.array[i * local.cols + j] = local.data[j * local.rows + i]
              /\ fp_to_eigen(fp) = local
    /\ (op \notin {"none", "identity", "zeros"}) =>
          \A a \in 1 .. Len(args) :
              LET M == fp_to_eigen(args[a])
              IN  /\ M.rows = args[a].rows
                  /\ M.cols = args[a].columns
                  /\ \A i \in 0 .. (M.rows - 1), j \in 0 .. (M.cols - 1) :
                        M.data[j * M.rows + i] = args[a].array[i * args[a].columns + j]

\* A 2 x 3 result with distinct entries was written by eigen_to_fp.
C4_Witness ==
    /\ Succeeded(ret)
    /\ ret.ptr = "eigen_to_fp"
    /\ op = "transpose"
    /\ local.rows = 2
    /\ local.cols = 3
    /\ args[1] = InMat(3, 2, 3)
    /\ result["eigen_to_fp"].array[1] = Num(3)

\* entry (i, j) of a caller matrix with exact entries, as an integer
At(fp, i, j) == fp.array[i * fp.columns + j][2]

\* C6: add and sub return nullptr exactly on a shape mismatch (a call cut
\* short by an internal fault aside); otherwise the result has the shape of
\* A and C[i,j] = A[i,j] + B[i,j], resp. A[i,j] - B[i,j].
C6_AddSub ==
    (op \in {"add", "sub"}) =>
        LET A == args[1]
            B == args[2]
            C == result["eigen_to_fp"]
            mismatch == A.rows # B.rows \/ A.columns # B.columns
        IN  /\ mismatch => (ret = nullptr /\ outcome \in {"precondition", "fault"})
            /\ ~mismatch => outcome \in {"ok", "fault"}
            /\ outcome = "fault" => ret = nullptr
            /\ outcome = "ok" =>
                  /\ ret = FPret("eigen_to_fp")
                  /\ C.rows = A.rows
                  /\ C.columns = A.columns
                  /\ \A i \in Idx(A.rows), j \in Idx(A.columns) :
                        C.array[i * C.columns + j] =
                            Num(IF op = "add" THEN At(A, i, j) + At(B, i, j)
                                ELSE At(A, i, j) - At(B, i, j))

\* sub(A, B) succeeded on two different 2 x 3 matrices.
C6_Witness ==
    /\ op = "sub"
    /\ outcome = "ok"
    /\ args[1] = InMat(2, 3, 3)
    /\ args[2] = InMat(2, 3, 4)
    /\ result["eigen_to_fp"].array[5] = Num(6)

\* add(2x3, 3x2) was refused.
C6_WitnessMismatch ==
    /\ op = "add"
    /\ args[1] = InMat(2, 3, 3)
    /\ args[2] = InMat(3, 2, 3)
    /\ ret = nullptr

RECURSIVE RowByCol(_, _, _, _, _)
\* sum over l < n of A[i,l] * B[l,j] on caller matrices
RowByCol(A, B, i, j, n) ==
    IF n = 0 THEN 0 ELSE RowByCol(A, B, i, j, n - 1) + At(A, i, n - 1) * At(B, n - 1, j)

\* what a successful identity(n) call leaves in the array it returns
IdentityOf(n) == xll_matrix_identity(n, "none").result["eigen_to_fp"]

\* C7: mul returns nullptr exactly when A.columns # B.rows (internal faults
\* aside); otherwise the A.rows x B.columns matrix product, and with
\* B = identity(A.columns) the result is A itself.
C7_Mul ==
    (op = "mul") =>
        LET A == args[1]
            B == args[2]
            C == result["eigen_to_fp"]
            mismatch == A.columns # B.rows
        IN  /\ mismatch => (ret = nullptr /\ outcome \in {"precondition", "fault"})
            /\ ~mismatch => outcome \in {"ok", "fault"}
            /\ outcome = "ok" =>
                  /\ ret = FPret("eigen_to_fp")
                  /\ C.rows = A.rows
                  /\ C.columns = B.columns
                  /\ DOMAIN C.array = Idx(A.rows * B.columns)
                  /\ \A i \in Idx(A.rows), j \in Idx(B.columns) :
                        C.array[i * C.columns + j] = Num(RowByCol(A, B, i, j, A.columns))
                  /\ (B = IdentityOf(A.columns)) => C = A

\* A 2 x 3 matrix with distinct entries was multiplied by identity(3).
C7_Witness ==
    /\ op = "mul"
    /\ outcome = "ok"
    /\ args[1] = InMat(2, 3, 3)
    /\ args[2] = IdentityOf(3)
    /\ result["eigen_to_fp"] = InMat(2, 3, 3)

\* C8: solve returns nullptr exactly when A is not square or A.rows # b.rows
\* (internal faults aside); for every square A with A.rows = b.rows, singular
\* or not, it returns an A.rows x b.columns matrix.
C8_Solve ==
    (op = "solve") =>
        LET A == args[1]
            b == args[2]
            x == result["eigen_to_fp"]
            bad == A.rows # A.columns \/ A.rows # b.rows
        IN  /\ bad => (ret = nullptr /\ outcome \in {"precondition", "fault"})
            /\ ~bad => outcome \in {"ok", "fault"}
            /\ outcome = "ok" =>
                  /\ ret = FPret("eigen_to_fp")
                  /\ x.rows = A.rows
                  /\ x.columns = b.columns
                  /\ DOMAIN x.array = Idx(A.rows * b.columns)
            /\ (~bad /\ FPDet(A) = 0 /\ ret = nullptr) => outcome = "fault"

\* solve returned a matrix for a singular 2 x 2 coefficient matrix.
C8_Witness ==
    /\ op = "solve"
    /\ args[1] = InMat(2, 2, 1)
    /\ args[2] = InMat(2, 3, 3)
    /\ FPDet(args[1]) = 0
    /\ ret = FPret("eigen_to_fp")
    /\ result["eigen_to_fp"].rows = 2
    /\ result["eigen_to_fp"].columns = 3

\* the mathematical truncation toward zero of the scalar m * 10^e; a
\* magnitude above 2 * 10^9 is clamped there, far outside every accepted
\* dimension
TruncTowardZero(x) ==
    IF x[3] = -1 THEN (IF x[2] >= 0 THEN x[2] \div 10 ELSE -((-x[2]) \div 10))
    ELSE IF x[3] = 0 THEN x[2]
    ELSE Max(-2, Min(2, x[2])) * 1000000000

\* a dimension the generators accept
GoodDim(d) == 0 < d /\ d <= 10000

\* C9: identity and zeros truncate each scalar toward zero and are refused
\* exactly when some truncated dimension d is outside 0 < d <= 10000; an
\* accepted call that is not cut short by an internal fault returns the
\* d x d identity, resp. the all-zero matrix of the truncated shape.
\* identity(0), identity(0.9), identity(10001), zeros(0, 5) are refused,
\* identity(3.9) is the 3 x 3 identity, identity(10000.5) is accepted.
C9_Generators ==
    /\ (op = "identity") =>
          LET d == TruncTowardZero(args[1])
              I == result["eigen_to_fp"]
          IN  /\ (outcome = "precondition") <=> ~GoodDim(d)
              /\ outcome # "ok" => ret = nullptr
              /\ outcome = "ok" =>
                    /\ ret = FPret("eigen_to_fp")
                    /\ I.rows = d
                    /\ I.columns = d
                    /\ DOMAIN I.array = Idx(d * d)
                    /\ \A i \in Idx(d), j \in Idx(d) :
                          I.array[i * d + j] = Num(IF i = j THEN 1 ELSE 0)
              /\ args[1] \in {Dec(0, 0), Dec(9, -1), Dec(10001, 0)} =>
                    (ret = nullptr /\ outcome = "precondition")
              /\ (args[1] = Dec(39, -1) /\ outcome = "ok") => I.rows = 3
              /\ args[1] = Dec(100005, -1) => outcome # "precondition"
    /\ (op = "zeros") =>
          LET r == TruncTowardZero(args[1])
              c == TruncTowardZero(args[2])
              Z == result["eigen_to_fp"]
          IN  /\ (outcome = "precondition") <=> ~(GoodDim(r) /\ GoodDim(c))
              /\ outcome # "ok" => ret = nullptr
              /\ outcome = "ok" =>
                    /\ ret = FPret("eigen_to_fp")
                    /\ Z.rows = r
                    /\ Z.columns = c
                    /\ DOMAIN Z.array = Idx(r * c)
                    /\ \A k \in Idx(r * c) : Z.array[k] = Num(0)
              /\ args[1] = Dec(0, 0) => (ret = nullptr /\ outcome = "precondition")

\* identity(3.9) returned the 3 x 3 identity matrix.
C9_Witness ==
    /\ op = "identity"
    /\ args = <<Dec(39, -1)>>
    /\ outcome = "ok"
    /\ result["eigen_to_fp"].rows = 3
    /\ result["eigen_to_fp"].array[4] = Num(1)
    /\ result["eigen_to_fp"].array[5] = Num(0)

\* identity(10000.5) passed the dimension check.
C9_WitnessUpperEdge ==
    /\ op = "identity"
    /\ args = <<Dec(100005, -1)>>
    /\ outcome # "precondition"

\* zeros(0.9, 2) was refused.
C9_WitnessRefused ==
    /\ op = "zeros"
    /\ args = <<Dec(9, -1), Dec(2, 0)>>
    /\ ret = nullptr

\* C10: diag picks its mode by the column count alone.  With one column
\* (the 1 x 1 input included) it builds the n x n matrix with the column on
\* the diagonal and zeros elsewhere; with any other shape it extracts the
\* min(rows, cols) diagonal entries as a column vector.
C10_Diag ==
    (op = "diag") =>
        LET A == args[1]
            n == A.rows
            k == Min(A.rows, A.columns)
            D == result["eigen_to_fp"]
            v == result["vector_to_fp"]
        IN  /\ outcome \in {"ok", "fault"}
            /\ outcome = "fault" => ret = nullptr
            /\ (outcome = "ok" /\ A.columns = 1) =>
                  /\ ret = FPret("eigen_to_fp")
                  /\ D.rows = n
                  /\ D.columns = n
                  /\ DOMAIN D.array = Idx(n * n)
                  /\ \A i \in Idx(n), j \in Idx(n) :
                        D.array[i * n + j] = (IF i = j THEN A.array[i] ELSE Num(0))
            /\ (outcome = "ok" /\ A.columns # 1) =>
                  /\ ret = FPret("vector_to_fp")
                  /\ v.rows = k
                  /\ v.columns = 1
                  /\ DOMAIN v.array = Idx(k)
                  /\ \A i \in Idx(k) : v.array[i] = A.array[i * A.columns + i]

\* diag of a 1 x 1 input was answered in matrix-building mode.
C10_Witness ==
    /\ op = "diag"
    /\ outcome = "ok"
    /\ args[1] = InMat(1, 1, 1)
    /\ ret = FPret("eigen_to_fp")
    /\ result["eigen_to_fp"] = InMat(1, 1, 1)

\* diag of a 3 x 1 column and of a 2 x 3 matrix.
C10_WitnessColumn ==
    /\ op = "diag"
    /\ outcome = "ok"
    /\ args[1] = InMat(3, 1, 3)
    /\ result["eigen_to_fp"].rows = 3
    /\ result["eigen_to_fp"].columns = 3
    /\ result["eigen_to_fp"].array[8] = Num(3)

C10_WitnessExtract ==
    /\ op = "diag"
    /\ outcome = "ok"
    /\ args[1] = InMat(2, 3, 3)
    /\ ret = FPret("vector_to_fp")
    /\ result["vector_to_fp"].rows = 2
    /\ result["vector_to_fp"].array[1] = Num(5)

\* C5: with no lock around the static FPX, a call that ran with no other
\* call in flight returns an array whose dimensions and entries are exactly
\* the matrix it computed.
C5_SerializedCallsExact ==
    \A n \in 1 .. Len(log) :
        log[n].alone =>
            /\ log[n].seen.rows = log[n].mat.rows
            /\ log[n].seen.columns = log[n].mat.cols
            /\ DOMAIN log[n].seen.array = Idx(log[n].mat.rows * log[n].mat.cols)
            /\ \A i \in Idx(log[n].mat.rows), j \in Idx(log[n].mat.cols) :
                  log[n].seen.array[i * log[n].mat.cols + j] = Coeff(log[n].mat, i, j)

\* A serialized call returned its own 2 x 2 result on a slot that held a
\* 1 x 2 result before, and a call that overlapped another returned an
\* array with the dimensions the other call wrote.
C5_Witness ==
    /\ \E n \in 1 .. Len(log) :
          /\ log[n].alone
          /\ log[n].seen.rows = 2
          /\ log[n].seen.array[1] = Num(3)
    /\ \E n \in 1 .. Len(log) :
          /\ ~log[n].alone
          /\ log[n].mat.rows = 2
          /\ log[n].seen.rows = 1

\* A call that overlapped another returned an array of its own dimensions
\* holding an entry the other call wrote.
C5_WitnessForeignEntry ==
    \E n \in 1 .. Len(log) :
        /\ ~log[n].alone
        /\ log[n].mat.rows = 2
        /\ log[n].seen.rows = 2
        /\ log[n].seen.columns = 2
        /\ Coeff(log[n].mat, 0, 1) = Num(3)
        /\ log[n].seen.array[1] = Num(2)

\* C11: for an m x n input with k = min(m, n), full SVD returns an
\* (m + 2k) x max(m, n, k) array: U in rows [0, m), columns [0, k); the
\* diagonal Sigma block in rows [m, m + k), columns [0, k), zero off its
\* diagonal; V-transpose in rows [m + k, m + 2k), columns [0, n); every
\* entry outside the three blocks exactly 0.
C11_FullSVDLayout ==
    (op = "svd_full" /\ outcome = "ok") =>
        LET m == args[1].rows
            n == args[1].columns
            k == Min(m, n)
            w == Max(Max(m, n), k)
            R == result["svd_full"]
        IN  /\ ret = FPret("svd_full")
            /\ R.rows = m + 2 * k
            /\ R.columns = w
            /\ DOMAIN R.array = Idx((m + 2 * k) * w)
            /\ \A i \in Idx(m + 2 * k), j \in Idx(w) :
                  R.array[i * w + j] =
                      IF i < m /\ j < k THEN Ker("matrixU", i, j)
                      ELSE IF m <= i /\ i < m + k /\ j < k
                           THEN (IF i - m = j THEN Ker("singularValues", j, 0)
                                 ELSE Num(0))
                      ELSE IF m + k <= i /\ j < n THEN Ker("matrixV", j, i - m - k)
                      ELSE Num(0)

\* full SVD of a 2 x 3 input returned the 6 x 3 stacked array.
C11_Witness ==
    /\ op = "svd_full"
    /\ outcome = "ok"
    /\ args[1] = InMat(2, 3, 3)
    /\ result["svd_full"].rows = 6
    /\ result["svd_full"].columns = 3
    /\ result["svd_full"].array[2] = Num(0)
    /\ result["svd_full"].array[6] = Ker("singularValues", 0, 0)
    /\ result["svd_full"].array[14] = Ker("matrixV", 2, 0)

\* full SVD of a 3 x 1 input: 5 x 3, two padding columns in every row.
C11_WitnessTall ==
    /\ op = "svd_full"
    /\ outcome = "ok"
    /\ args[1] = InMat(3, 1, 3)
    /\ result["svd_full"].rows = 5
    /\ result["svd_full"].columns = 3
    /\ result["svd_full"].array[13] = Num(0)

\* the operations defined on square matrices only
SquareOnlyOps ==
    {"trace", "det", "inv", "lu", "cholesky", "eigenvalues", "eigenvectors"}

\* C12: every square-only operation answers a non-square input with the
\* failure sentinel of its return type, before any numerical work: quiet
\* NaN from trace and determinant, the null array from inverse, LU,
\* Cholesky, eigenvalues and eigenvectors.
C12_SquareOnly ==
    (op \in SquareOnlyOps /\ args[1].rows # args[1].columns) =>
        /\ ret = (IF op \in {"trace", "det"} THEN DoubleRet(quiet_NaN) ELSE nullptr)
        /\ outcome \in {"precondition", "fault"}
        /\ local = NoMatrix

\* trace of a 2 x 3 input returned NaN on the shape test.
C12_Witness ==
    /\ op = "trace"
    /\ args[1] = InMat(2, 3, 3)
    /\ outcome = "precondition"
    /\ ret = DoubleRet(quiet_NaN)

\* eigenvalues of a 3 x 2 input returned the null array on the shape test.
C12_WitnessMatrixValued ==
    /\ op = "eigenvalues"
    /\ args[1] = InMat(3, 2, 3)
    /\ outcome = "precondition"
    /\ ret = nullptr

\* C13: transpose has no precondition: for every m x n matrix A it returns
\* the n x m matrix T with T[i,j] = A[j,i] (a call cut short by an internal
\* fault aside), and transposing the returned array gives A back, shape and
\* entries.
C13_Transpose ==
    (op = "transpose") =>
        LET A == args[1]
            T == result["eigen_to_fp"]
        IN  /\ outcome \in {"ok", "fault"}
            /\ outcome = "ok" =>
                  /\ ret = FPret("eigen_to_fp")
                  /\ T.rows = A.columns
                  /\ T.columns = A.rows
                  /\ DOMAIN T.array = Idx(A.rows * A.columns)
                  /\ \A i \in Idx(T.rows), j \in Idx(T.columns) :
                        T.array[i * T.columns + j] = A.array[j * A.columns + i]
                  /\ xll_matrix_transpose(T, "none").ret = FPret("eigen_to_fp")
                  /\ xll_matrix_transpose(T, "none").result["eigen_to_fp"] = A

\* transpose of a 2 x 3 matrix with distinct entries returned the 3 x 2
\* matrix, which differs from its input.
C13_Witness ==
    /\ op = "transpose"
    /\ outcome = "ok"
    /\ args[1] = InMat(2, 3, 3)
    /\ result["eigen_to_fp"].rows = 3
    /\ result["eigen_to_fp"].columns = 2
    /\ result["eigen_to_fp"].array[1] = Num(4)
    /\ result["eigen_to_fp"].array # args[1].array

\* entry of the symmetric matrix whose lower triangle is that of fp
SymAt(fp, i, j) == At(fp, Max(i, j), Min(i, j))

RECURSIVE QuadRow(_, _, _, _)
RECURSIVE QuadForm(_, _, _)
\* sum over j < n of S[i,j] * x[j], and sum over i < n of x[i] * (S x)[i]
QuadRow(fp, x, i, n) ==
    IF n = 0 THEN 0 ELSE QuadRow(fp, x, i, n - 1) + SymAt(fp, i, n - 1) * x[n - 1]

QuadForm(fp, x, n) ==
    IF n = 0 THEN 0
    ELSE QuadForm(fp, x, n - 1) + x[n - 1] * QuadRow(fp, x, n - 1, fp.rows)

\* the nonzero vectors with coordinates in -1 .. 1
TestVectors(n) == {x \in [Idx(n) -> {-1, 0, 1}] : \E i \in Idx(n) : x[i] # 0}

\* some test vector x has x' S x <= 0: S is not positive definite
NotPositiveDefinite(fp) ==
    \E x \in TestVectors(fp.rows) : QuadForm(fp, x, fp.rows) <= 0

\* C14: for a square A that is not positive definite Cholesky returns the
\* null array, the very value a non-square input gets, and hands no factor
\* to the writer; a returned factor is the n x n lower-triangular L of a
\* factorisation that reported success.
C14_Cholesky ==
    (op = "cholesky") =>
        LET A == args[1]
            L == result["eigen_to_fp"]
            n == A.rows
        IN  /\ A.rows # A.columns => ret = nullptr
            /\ (A.rows = A.columns /\ NotPositiveDefinite(A)) =>
                  /\ ret = nullptr
                  /\ outcome \in {"numerical", "fault"}
                  /\ local = NoMatrix
            /\ outcome = "numerical" => (ret = nullptr /\ local = NoMatrix)
            /\ ret # nullptr =>
                  /\ outcome = "ok"
                  /\ ret = FPret("eigen_to_fp")
                  /\ A.rows = A.columns
                  /\ ~NotPositiveDefinite(A)
                  /\ L.rows = n
                  /\ L.columns = n
                  /\ DOMAIN L.array = Idx(n * n)
                  /\ \A i \in Idx(n), j \in Idx(n) :
                        L.array[i * n + j] =
                            (IF i >= j THEN Ker("matrixL", i, j) ELSE Num(0))

\* Cholesky of the square 3 x 3 matrix [[0,1,2],[3,4,5],[6,7,8]], whose
\* determinant over the lower triangle is positive but whose first pivot is
\* 0, returned the null array.
C14_Witness ==
    /\ op = "cholesky"
    /\ args[1] = InMat(3, 3, 2)
    /\ NotPositiveDefinite(args[1])
    /\ outcome = "numerical"
    /\ ret = nullptr

\* Cholesky of [[2,1],[1,2]] returned a lower-triangular factor.
C14_WitnessFactor ==
    /\ op = "cholesky"
    /\ args[1] = InMat(2, 2, 5)
    /\ outcome = "ok"
    /\ result["eigen_to_fp"].array[1] = Num(0)
    /\ result["eigen_to_fp"].array[2] = Ker("matrixL", 1, 0)

\* C15: QR succeeds for every m x n input and returns the upper-triangular
\* factor R of shape n x n, every entry below the main diagonal 0, as the
\* MATRIX.QR documentation states.
C15_QRShape ==
    (op = "qr" /\ outcome # "fault") =>
        LET n == args[1].columns
            R == result["eigen_to_fp"]
        IN  /\ outcome = "ok"
            /\ ret = FPret("eigen_to_fp")
            /\ R.rows = n
            /\ R.columns = n
            /\ \A i \in Idx(R.rows), j \in Idx(R.columns) :
                  i > j => R.array[i * R.columns + j] = Num(0)

\* What the handler returns instead: the m x n upper-trapezoidal part of
\* the packed factorisation.
C15_QRReturnsPackedShape ==
    (op = "qr" /\ outcome = "ok") =>
        LET R == result["eigen_to_fp"]
        IN  /\ R.rows = args[1].rows
            /\ R.columns = args[1].columns
            /\ \A i \in Idx(R.rows), j \in Idx(R.columns) :
                  i > j => R.array[i * R.columns + j] = Num(0)

\* QR of a 3 x 2 input returned a 3 x 2 array.
C15_WitnessTall ==
    /\ op = "qr"
    /\ outcome = "ok"
    /\ args[1] = InMat(3, 2, 3)
    /\ result["eigen_to_fp"].rows = 3
    /\ result["eigen_to_fp"].columns = 2

\* how many singular values the returned pseudoinverse was built from
\* (0 for the exactly-zero product)
KeptIn(P) == IF P.array[0] = Num(0) THEN 0 ELSE P.array[0][3]

\* C16 as stated: with t = epsilon * max(rows, cols) * (largest singular
\* value), a singular value s is mapped to 0 when s is below t and to 1/s
\* otherwise; the result is V * diag(mapped) * U' of shape A.cols x A.rows.
C16_PinvBelowTolerance ==
    (op = "pinv" /\ outcome = "ok") =>
        LET A == fp_to_eigen(args[1])
            P == result["eigen_to_fp"]
            k == Min(A.rows, A.cols)
        IN  /\ P.rows = A.cols
            /\ P.columns = A.rows
            /\ KeptIn(P) =
                  Cardinality({l \in Idx(k) : ~(singularValues(A, l) < tolerance(A))})

\* C16 amended: a singular value s is reciprocated only when s is strictly
\* above t and mapped to 0 when s <= t, so the all-zero matrix (t = 0,
\* every s = 0) has the all-zero pseudoinverse; the result is
\* V * diag(mapped) * U' of shape A.cols x A.rows.
C16_PinvStrictlyAbove ==
    (op = "pinv" /\ outcome = "ok") =>
        LET A == fp_to_eigen(args[1])
            P == result["eigen_to_fp"]
            k == Min(A.rows, A.cols)
            kept == Cardinality({l \in Idx(k) : singularValues(A, l) > tolerance(A)})
        IN  /\ ret = FPret("eigen_to_fp")
            /\ P.rows = A.cols
            /\ P.columns = A.rows
            /\ DOMAIN P.array = Idx(A.rows * A.cols)
            /\ KeptIn(P) = kept
            /\ \A i \in Idx(P.rows), j \in Idx(P.columns) :
                  P.array[i * P.columns + j] =
                      (IF kept = 0 THEN Num(0)
                       ELSE <<"V*Sinv*Ut", i * P.columns + j, kept>>)
            /\ (\A x \in Idx(A.rows * A.cols) : args[1].array[x] = Num(0)) =>
                  \A x \in DOMAIN P.array : P.array[x] = Num(0)

\* pinv of the 2 x 3 zero matrix returned the 3 x 2 zero matrix: every
\* singular value equals the tolerance and none was reciprocated.
C16_Witness ==
    /\ op = "pinv"
    /\ outcome = "ok"
    /\ args[1] = InMat(2, 3, 0)
    /\ result["eigen_to_fp"].rows = 3
    /\ result["eigen_to_fp"].columns = 2
    /\ \A x \in Idx(6) : result["eigen_to_fp"].array[x] = Num(0)

\* pinv of the rank-1 2 x 3 all-ones matrix reciprocated one singular
\* value and zeroed the other.
C16_WitnessRankOne ==
    /\ op = "pinv"
    /\ outcome = "ok"
    /\ args[1] = InMat(2, 3, 1)
    /\ result["eigen_to_fp"].rows = 3
    /\ KeptIn(result["eigen_to_fp"]) = 1

\* The handler exported under the name o, applied to the arguments a with
\* a fault injected at f; a generator stands for each value its integer
\* conversion can produce.
HandlerResults(o, a, f) ==
    CASE o = "add" -> {xll_matrix_add(a[1], a[2], f)}
      [] o = "sub" -> {xll_matrix_sub(a[1], a[2], f)}
      [] o = "mul" -> {xll_matrix_mul(a[1], a[2], f)}
      [] o = "transpose" -> {xll_matrix_transpose(a[1], f)}
      [] o = "trace" -> {xll_matrix_trace(a[1], f)}
      [] o = "norm" -> {xll_matrix_norm(a[1], f)}
      [] o = "det" -> {xll_matrix_det(a[1], f)}
      [] o = "rank" -> {xll_matrix_rank(a[1], f)}
      [] o = "inv" -> {xll_matrix_inv(a[1], f)}
      [] o = "lu" -> {xll_matrix_lu(a[1], f)}
      [] o = "qr" -> {xll_matrix_qr(a[1], f)}
      [] o = "cholesky" -> {xll_matrix_cholesky(a[1], f)}
      [] o = "svd" -> {xll_matrix_svd(a[1], f)}
      [] o = "svd_full" -> {xll_matrix_svd_full(a[1], f)}
      [] o = "eigenvalues" -> {xll_matrix_eigenvalues(a[1], f)}
      [] o = "eigenvectors" -> {xll_matrix_eigenvectors(a[1], f)}
      [] o = "solve" -> {xll_matrix_solve(a[1], a[2], f)}
      [] o = "lstsq" -> {xll_matrix_lstsq(a[1], a[2], f)}
      [] o = "pinv" -> {xll_matrix_pinv(a[1], f)}
      [] o = "diag" -> {xll_matrix_diag(a[1], f)}
      [] o = "identity" ->
            {xll_matrix_identity(dim, f) : dim \in static_cast_int(a[1])}
      [] o = "zeros" ->
            {xll_matrix_zeros(r, c, f) :
                r \in static_cast_int(a[1]), c \in static_cast_int(a[2])}
      [] OTHER -> {}

ScalarOps == {"trace", "norm", "det", "rank"}

\* the failure value of the return type of operation o
SentinelOf(o) == IF o \in ScalarOps THEN DoubleRet(quiet_NaN) ELSE nullptr

\* C17: no internal fault escapes.  Every call returns a value of its
\* return type; a call in which the input conversion, the kernel or the
\* output conversion raised a fault returned the failure sentinel of its
\* type, and so would the call just made with a fault at any other point.
C17_NoFaultEscapes ==
    /\ ret.type = (IF op \in ScalarOps THEN "double" ELSE "FP12")
    /\ outcome = "fault" => ret = SentinelOf(op)
    /\ \A f \in FaultPoints : \A R \in HandlerResults(op, args, f) :
          /\ R.ret.type = (IF op \in ScalarOps THEN "double" ELSE "FP12")
          /\ R.outcome = "fault" => (R.ret = SentinelOf(op) /\ R.result = result)

\* A determinant call faulted in the kernel and returned NaN; a fault in
\* its input conversion would have done the same.
C17_Witness ==
    /\ op = "det"
    /\ args[1] = InMat(2, 2, 3)
    /\ outcome = "fault"
    /\ ret = DoubleRet(quiet_NaN)
    /\ xll_matrix_det(args[1], "fp_to_eigen").outcome = "fault"

\* An add call faulted while resizing the output array and returned null.
C17_WitnessResize ==
    /\ op = "add"
    /\ args = <<InMat(2, 2, 3), InMat(2, 2, 4)>>
    /\ outcome = "fault"
    /\ ret = nullptr
    /\ calls = 1
    /\ xll_matrix_add(args[1], args[2], "resize").outcome = "fault"
    /\ xll_matrix_add(args[1], args[2], "kernel").outcome = "fault"

\* C19: a scalar-valued call (trace, norm, determinant, rank) leaves every
\* static output array exactly as it was, whether it succeeds or fails.
C19_ScalarOpsLeaveSlots ==
    [][(calls' = calls + 1 /\ op' \in ScalarOps) =>
          (result' = result /\ ret'.type = "double" /\ local' = NoMatrix)]_vars

\* A 2 x 2 transpose was returned, then rank was computed: the array still
\* holds the transpose.
C19_Witness ==
    /\ calls = 2
    /\ op = "rank"
    /\ outcome = "ok"
    /\ ret = DoubleRet(Ker("rank", 0, 0))
    /\ result["eigen_to_fp"] = FP12(2, 2, [i \in Idx(2), j \in Idx(2) |-> Num(1 + 2 * j + i)])

\* ... and after a failing trace as well.
C19_WitnessFailed ==
    /\ calls = 2
    /\ op = "trace"
    /\ outcome = "precondition"
    /\ result["vector_to_fp"].rows = 2

\* C18: a call whose argument is the array the previous call returned (the
\* static FPX itself) copies the whole input into a private matrix before
\* it resizes or writes that array, so the array it returns is the result
\* of the operation on an independent copy of the argument; transpose
\* chained on its own result returns the first argument.
C18_AliasedArgument ==
    \A n \in 1 .. Len(log) :
        (log[n].alias /\ log[n].alone) =>
            LET A == log[n].arg
                T == log[n].seen
            IN  /\ T.rows = A.columns
                /\ T.columns = A.rows
                /\ DOMAIN T.array = Idx(A.rows * A.columns)
                /\ \A i \in Idx(T.rows), j \in Idx(T.columns) :
                      T.array[i * T.columns + j] = A.array[j * A.columns + i]
                /\ T = xll_matrix_transpose(A, "none").result["eigen_to_fp"]
                /\ (n > 1 /\ log[n - 1].alone /\ A = log[n - 1].seen) =>
                      T = log[n - 1].arg

\* transpose of [[1,2],[3,4]] was returned, then transpose was called on
\* the returned array itself and returned [[1,2],[3,4]].
C18_Witness ==
    /\ Len(log) >= 2
    /\ log[1].arg = InMat(2, 2, 3)
    /\ log[1].alone
    /\ log[1].seen.array[1] = Num(3)
    /\ log[2].alias
    /\ log[2].alone
    /\ log[2].arg = log[1].seen
    /\ log[2].seen = InMat(2, 2, 3)

\* the same chain on a 2 x 1 input, where the second call resizes the
\* array it is reading from 1 x 2 to 2 x 1
C18_WitnessResized ==
    /\ Len(log) >= 2
    /\ log[1].arg = InMat(2, 1, 3)
    /\ log[2].alias
    /\ log[2].alone
    /\ log[2].arg.rows = 1
    /\ log[2].seen = InMat(2, 1, 3)

\* add called on the array sub(A, B) returned, with B again, returns A.
C18_AddSubChain ==
    (op = "sub" /\ outcome = "ok") =>
        /\ xll_matrix_add(result["eigen_to_fp"], args[2], "none").ret = FPret("eigen_to_fp")
        /\ xll_matrix_add(result["eigen_to_fp"], args[2], "none").result["eigen_to_fp"]
               = args[1]

\* C20: the array a successful matrix-valued call returns is a function of
\* the call's arguments alone, whatever the static arrays held before.  It
\* is what the call's writer produces on a never-used array, the same call
\* made again on the arrays as they are now returns the same dimensions
\* and entries, and every entry of it was assigned by this call.
C20_HistoryIndependence ==
    Succeeded(ret) =>
        LET R == result[ret.ptr]
            A == args[1]
        IN  /\ DOMAIN R.array = Idx(R.rows * R.columns)
            /\ \A x \in DOMAIN R.array : R.array[x] # Uninit
            /\ ret.ptr = "eigen_to_fp" => R = eigen_to_fp(FPX_empty, local)
            /\ ret.ptr = "vector_to_fp" => R = vector_to_fp(FPX_empty, local)
            /\ ret.ptr = "svd_full" =>
                  R = svd_full_write(FPX_empty, A.rows, A.columns,
                                     Min(A.rows, A.columns))
            /\ \A R2 \in HandlerResults(op, args, "none") :
                  /\ R2.outcome = "ok"
                  /\ R2.ret = ret
                  /\ R2.local = local
                  /\ R2.result[ret.ptr] = R

\* full SVD of a 2 x 1 input, written into the array that held the 6 x 2
\* result of an earlier full SVD, is the 4 x 2 array a first call returns.
C20_Witness ==
    /\ calls = 2
    /\ op = "svd_full"
    /\ outcome = "ok"
    /\ args[1] = InMat(2, 1, 3)
    /\ before = [rows |-> 6, columns |-> 2]
    /\ result["svd_full"].rows = 4
    /\ result["svd_full"].columns = 2
    /\ result["svd_full"].array[1] = Num(0)
    /\ result["svd_full"].array[7] = Num(0)

\* the same call as the first call of a run
C20_WitnessFirstCall ==
    /\ calls = 1
    /\ op = "svd_full"
    /\ outcome = "ok"
    /\ args[1] = InMat(2, 1, 3)
    /\ before = NoShape
    /\ result["svd_full"].rows = 4
    /\ result["svd_full"].array[7] = Num(0)

\* a 2 x 1 transpose written over a 2 x 2 result of eigen_to_fp
C20_WitnessShrunk ==
    /\ calls = 2
    /\ op = "transpose"
    /\ outcome = "ok"
    /\ before = [rows |-> 2, columns |-> 2]
    /\ result["eigen_to_fp"].rows = 1

====
